---------------------------- MODULE Spec2Model ----------------------------
(***************************************************************************)
(* Stronghold ring locator (src/enderportal.py): seed normalisation, the   *)
(* 48-bit LCG, ring placement, the proximity query and main()'s input      *)
(* validation.                                                             *)
(*                                                                         *)
(* Representation.  TLC's integers are 32 bits wide, Python's are not, so  *)
(* every Python integer that can exceed 31 bits is a little-endian         *)
(* sequence of bytes (limb p weighs 256^(p-1)); a signed one is a record   *)
(* [neg, mag].  A str is a sequence of one-character strings.  A float in  *)
(* [0,1) returned by rng_double is its numerator over 2^26, which a double *)
(* holds exactly.                                                          *)
(***************************************************************************)
EXTENDS Integers, Sequences, FiniteSets, TLC

VARIABLES
    pc,             \* per run: position inside generate_strongholds
    seed_input,     \* per run: the argument of generate_strongholds
    base_seed,      \* per run: signed big integer [neg, mag]
    internal_seed,  \* per run: the LCG state, 6 bytes
    ring_index,     \* per run: outer loop variable
    i,              \* per run: inner loop variable
    radius,         \* per run: radius of the current ring [int, num]
    base_angle,     \* per run: base_angle_frac numerator of the current ring
    strongholds,    \* per run: the list being built
    value,          \* per run: the float rng_double returned last
    draws,          \* per run: log of the rng_double calls made so far
    main_pc,        \* main(): position
    out,            \* main(): what has been printed
    lines,          \* main(): the prompts answered so far, with the line read
    main_seed_input,                    \* main(): the stripped seed line
    exit_status,    \* main(): -1 while running, else the process status
    player_x, player_z, max_distance,   \* main(): accepted inputs
    q_pc,           \* find_nearby_strongholds: position
    q_strongholds,  \* find_nearby_strongholds: argument list
    q_px, q_pz, q_max,                  \* find_nearby_strongholds: arguments
    q_k,            \* find_nearby_strongholds: loop position
    results         \* find_nearby_strongholds: the list being built

genVars   == <<pc, seed_input, base_seed, internal_seed, ring_index, i,
               radius, base_angle, strongholds, value, draws>>
mainVars  == <<main_pc, out, lines, exit_status, main_seed_input, player_x,
               player_z, max_distance>>
queryVars == <<q_pc, q_strongholds, q_px, q_pz, q_max, q_k, results>>
vars      == <<genVars, mainVars, queryVars>>

---------------------------------------------------------------------------
(* Bounds of the model. *)

\* How many of the sample seed strings a single generation run draws from.
NumSeeds == 8
\* How many of the sample seed strings the second of two interleaved runs
\* draws from.
ConcSeeds == 2
\* Longest landmark list handed to find_nearby_strongholds.
MaxLandmarks == 3
\* How many of the sample lines main() reads its three numbers from.
NumLines == 5

Runs == {1, 2}

---------------------------------------------------------------------------
(* Characters and strings. *)

Lower == <<"a","b","c","d","e","f","g","h","i","j","k","l","m",
           "n","o","p","q","r","s","t","u","v","w","x","y","z">>
Digits == <<"0","1","2","3","4","5","6","7","8","9">>

IsDigit(c) == \E d \in 1..10 : Digits[d] = c
DigitVal(c) == (CHOOSE d \in 1..10 : Digits[d] = c) - 1

\* ord(ch) for the characters the sample inputs use.
Ord(c) ==
    IF IsDigit(c) THEN 48 + DigitVal(c)
    ELSE IF \E n \in 1..26 : Lower[n] = c
         THEN 96 + (CHOOSE n \in 1..26 : Lower[n] = c)
    ELSE CASE c = " " -> 32
           [] c = "+" -> 43
           [] c = "-" -> 45
           [] c = "." -> 46
           [] c = "_" -> 95

RECURSIVE LStrip(_)
LStrip(s) == IF s # <<>> /\ Head(s) = " " THEN LStrip(Tail(s)) ELSE s

RECURSIVE RStrip(_)
RStrip(s) ==
    IF s # <<>> /\ s[Len(s)] = " " THEN RStrip(SubSeq(s, 1, Len(s) - 1)) ELSE s

\* str.strip() (the sample inputs hold no other whitespace than " ").
Strip(s) == RStrip(LStrip(s))

---------------------------------------------------------------------------
(* Arbitrary-precision arithmetic on little-endian byte sequences. *)

RECURSIVE Normalize(_)
Normalize(a) ==
    IF a # <<>> /\ a[Len(a)] = 0 THEN Normalize(SubSeq(a, 1, Len(a) - 1)) ELSE a

\* The low n bytes of a: a & (256^n - 1).
Low(a, n) == SubSeq(a \o [p \in 1..n |-> 0], 1, n)

\* a * m + c for small m and c.
RECURSIVE MulAddSmall(_, _, _)
MulAddSmall(a, m, c) ==
    IF a = <<>>
    THEN IF c = 0 THEN <<>> ELSE <<c % 256>> \o MulAddSmall(<<>>, m, c \div 256)
    ELSE LET t == a[1] * m + c
         IN  <<t % 256>> \o MulAddSmall(Tail(a), m, t \div 256)

\* (a * s + c) % 2^48 for 6-byte a and s and a small c: schoolbook columns,
\* each carrying into the next; the columns above the sixth only feed bits
\* the modulus drops.
MulAdd48(a, s, c) ==
    LET c1 == a[1]*s[1] + c
        c2 == a[1]*s[2] + a[2]*s[1] + (c1 \div 256)
        c3 == a[1]*s[3] + a[2]*s[2] + a[3]*s[1] + (c2 \div 256)
        c4 == a[1]*s[4] + a[2]*s[3] + a[3]*s[2] + a[4]*s[1] + (c3 \div 256)
        c5 == a[1]*s[5] + a[2]*s[4] + a[3]*s[3] + a[4]*s[2] + a[5]*s[1]
              + (c4 \div 256)
        c6 == a[1]*s[6] + a[2]*s[5] + a[3]*s[4] + a[4]*s[3] + a[5]*s[2]
              + a[6]*s[1] + (c5 \div 256)
    IN  <<c1 % 256, c2 % 256, c3 % 256, c4 % 256, c5 % 256, c6 % 256>>

\* 256^n - a for an n-byte a, modulo 256^n (two's complement negation).
TwosNeg(a, n) == Low(MulAddSmall([p \in 1..n |-> 255 - a[p]], 1, 1), n)

RECURSIVE BitXor(_, _, _)
BitXor(x, y, n) ==
    IF n = 0 THEN 0
    ELSE (((x % 2) + (y % 2)) % 2) + 2 * BitXor(x \div 2, y \div 2, n - 1)

\* a ^ b for two byte sequences of the same length.
BigXor(a, b) == [p \in 1..Len(a) |-> BitXor(a[p], b[p], 8)]

\* The low n bytes of a signed Python integer: v & (256^n - 1).
LowSigned(v, n) == IF v.neg THEN TwosNeg(Low(v.mag, n), n) ELSE Low(v.mag, n)

---------------------------------------------------------------------------
(* Static configuration. *)

RING_STRONGHOLDS == <<3, 6, 10, 15, 21, 28, 36, 9>>

RING_RADII == << <<1408, 2688>>, <<4480, 5760>>, <<7552, 8832>>,
                 <<10624, 11904>>, <<13696, 14976>>, <<16768, 18048>>,
                 <<19840, 21120>>, <<22912, 24192>> >>

\* len(RING_STRONGHOLDS): the rings zip() pairs up.
NumRings == Len(RING_STRONGHOLDS)

---------------------------------------------------------------------------
(* java_like_seed_from_string *)

\* Whether int(s) accepts s: optional surrounding blanks, an optional sign,
\* then decimal digits, single underscores allowed between digits.
IntBody(s) ==
    LET t == Strip(s)
    IN  IF t # <<>> /\ t[1] \in {"+", "-"} THEN Tail(t) ELSE t

IsIntLiteral(s) ==
    LET b == IntBody(s)
    IN  /\ b # <<>>
        /\ IsDigit(b[1]) /\ IsDigit(b[Len(b)])
        /\ \A p \in 1..Len(b) : IsDigit(b[p]) \/ b[p] = "_"
        /\ \A p \in 1..(Len(b) - 1) : ~(b[p] = "_" /\ b[p + 1] = "_")

\* The value of the digits of b appended to those of acc.  A longer b is
\* read in two halves, the second from the value v the first one leaves.
RECURSIVE DigitsValue(_, _)
DigitsValue(b, acc) ==
    IF b = <<>> THEN acc
    ELSE IF Len(b) = 1
    THEN IF b[1] = "_" THEN acc ELSE MulAddSmall(acc, 10, DigitVal(b[1]))
    ELSE LET mid == Len(b) \div 2
         IN  CHOOSE r \in {DigitsValue(SubSeq(b, mid + 1, Len(b)), v) :
                           v \in {DigitsValue(SubSeq(b, 1, mid), acc)}} : TRUE

\* int(s) for an accepted s: the exact integer, of any magnitude.
ParseInt(s) ==
    LET t   == Strip(s)
        mag == DigitsValue(IntBody(s), <<>>)
    IN  [neg |-> t[1] = "-" /\ mag # <<>>, mag |-> mag]

\* 1125899906842597 as 8 bytes.
HashStart == <<229, 255, 255, 255, 255, 255, 3, 0>>

\* h = (31 * h + ord(ch)) & 0xFFFFFFFFFFFFFFFF over the characters of s.  A
\* longer s is hashed in two halves, the second from the h the first leaves.
RECURSIVE HashLoop(_, _)
HashLoop(s, h) ==
    IF s = <<>> THEN h
    ELSE IF Len(s) = 1 THEN Low(MulAddSmall(h, 31, Ord(s[1])), 8)
    ELSE LET mid == Len(s) \div 2
         IN  CHOOSE r \in {HashLoop(SubSeq(s, mid + 1, Len(s)), g) :
                           g \in {HashLoop(SubSeq(s, 1, mid), h)}} : TRUE

\* Mutant of HashSigned: the unsigned hash is returned as it is.
HashUnsigned(h) == [neg |-> FALSE, mag |-> Normalize(h)]

\* if h >= 2**63: h -= 2**63 * 2
HashSigned(h) ==
    IF h[8] >= 128 THEN [neg |-> TRUE, mag |-> Normalize(TwosNeg(h, 8))]
    ELSE [neg |-> FALSE, mag |-> Normalize(h)]

java_like_seed_from_string(s) ==
    IF IsIntLiteral(s) THEN ParseInt(s) ELSE HashSigned(HashLoop(s, HashStart))

---------------------------------------------------------------------------
(* rng_next, rng_double *)

\* a = 25214903917 = 0x5DEECE66D, also the XOR constant of line 84.
Multiplier == <<109, 230, 236, 222, 5, 0>>

\* c = 11
Increment == 11

\* Mutant of rng_next: the increment c is left out.
rng_next_no_increment(seed) == MulAdd48(Multiplier, Low(seed, 6), 0)

\* (a * (seed & (m - 1)) + c) % m with m = 2**48
rng_next(seed) == MulAdd48(Multiplier, Low(seed, 6), Increment)

\* new_seed >> 22 for a 6-byte new_seed.
Shr22(s) == (s[3] \div 64) + s[4] * 4 + s[5] * 1024 + s[6] * 262144

\* rng_double: value is the numerator of the float over 2^26 (1 << 26).
rng_double(seed) ==
    LET new_seed == rng_next(seed)
    IN  [value |-> Shr22(new_seed), seed |-> new_seed]

\* internal_seed = (base_seed ^ 0x5DEECE66D) & ((1 << 48) - 1)
InitialInternalSeed(b) == BigXor(LowSigned(b, 6), Multiplier)

---------------------------------------------------------------------------
(* generate_strongholds, one action per rng_double call *)

\* frac * w for frac = k / 2^26 and an integer w below 2^17: the integer
\* part and the numerator over 2^26 of the rest.  8192 = 2^13 splits k so
\* that no product leaves 31 bits.
FracTimes(k, w) ==
    LET kh == k \div 8192
        lo == (k % 8192) * w
        t  == kh * w + (lo \div 8192)
    IN  [int |-> t \div 8192, num |-> (t % 8192) * 8192 + (lo % 8192)]

\* Mutant of RingRadius: frac scales r_max instead of the ring's width.
RingRadiusNoSub(k, r_min, r_max) ==
    LET f == FracTimes(k, r_max)
    IN  [int |-> r_min + f.int, num |-> f.num]

\* radius = r_min + frac * (r_max - r_min), exact in a double:
\* the value is int + num / 2^26.
RingRadius(k, r_min, r_max) ==
    LET f == FracTimes(k, r_max - r_min)
    IN  [int |-> r_min + f.int, num |-> f.num]

\* Mutant of Jitter: jitter_frac is not centred.
JitterUncentred(k) == 2 * k

\* jitter = (jitter_frac - 0.5) * (2 * pi / count * 0.4), in units of
\* (2 * pi / count) / (5 * 2^26): 0.4 * (k / 2^26 - 1/2) = 2 * (k - 2^25) / (5 * 2^26).
Jitter(k) == 2 * (k - 33554432)

\* angle = base_angle + (2.0 * pi * i / count) + jitter, kept as its three
\* addends: base is the numerator over 2^26 of a full turn, slot the i of
\* i / count of a full turn, jit as Jitter gives it.
Angle(base, slot, jit) == [base |-> base, slot |-> slot, jit |-> jit]

\* Mutant of Stronghold: the index is counted from one.
StrongholdOneBased(ring, index, rad, angle) ==
    [ring |-> ring, index |-> index + 1, radius |-> rad, angle |-> angle]

\* The dict appended to strongholds.  x = radius * cos(angle) and
\* z = radius * sin(angle) are functions of the two fields kept here.
Stronghold(ring, index, rad, angle) ==
    [ring |-> ring, index |-> index, radius |-> rad, angle |-> angle]

\* Mutant of CurrentSeed: one generator state for the whole process.
SharedSeed(r) == internal_seed[1]

\* The generator state a run reads for its next draw: its own local
\* internal_seed.
CurrentSeed(r) == internal_seed[r]

\* One rng_double call of run r, logged: what it is drawn for, in which ring.
DrawLog(r, what) == Append(draws[r], [what |-> what, ring |-> ring_index[r]])

\* Lines 80-84: normalise the seed, empty list, initial internal seed.
Start(r) ==
    /\ pc[r] = "start"
    /\ LET b == java_like_seed_from_string(seed_input[r])
       IN  /\ base_seed' = [base_seed EXCEPT ![r] = b]
           /\ internal_seed' = [internal_seed EXCEPT ![r] = InitialInternalSeed(b)]
    /\ strongholds' = [strongholds EXCEPT ![r] = <<>>]
    /\ ring_index' = [ring_index EXCEPT ![r] = 0]
    /\ pc' = [pc EXCEPT ![r] = "ring"]
    /\ UNCHANGED <<seed_input, i, radius, base_angle, value, draws>>
    /\ UNCHANGED <<mainVars, queryVars>>

\* Lines 86-89: next ring of the zip, radius draw.
DrawRadius(r) ==
    /\ pc[r] = "ring"
    /\ ring_index[r] < NumRings
    /\ LET d     == rng_double(CurrentSeed(r))
           r_min == RING_RADII[ring_index[r] + 1][1]
           r_max == RING_RADII[ring_index[r] + 1][2]
       IN  /\ internal_seed' = [internal_seed EXCEPT ![r] = d.seed]
           /\ radius' = [radius EXCEPT ![r] = RingRadius(d.value, r_min, r_max)]
           /\ value' = [value EXCEPT ![r] = d.value]
           /\ draws' = [draws EXCEPT ![r] = DrawLog(r, "radius")]
    /\ pc' = [pc EXCEPT ![r] = "angle"]
    /\ UNCHANGED <<seed_input, base_seed, ring_index, i, base_angle, strongholds>>
    /\ UNCHANGED <<mainVars, queryVars>>

\* Mutant of DrawBaseAngle: the state rng_double returns is dropped, so the
\* next draw starts from the same state again.
DrawBaseAngleUnthreaded(r) ==
    /\ pc[r] = "angle"
    /\ LET d == rng_double(CurrentSeed(r))
       IN  /\ base_angle' = [base_angle EXCEPT ![r] = d.value]
           /\ value' = [value EXCEPT ![r] = d.value]
           /\ draws' = [draws EXCEPT ![r] = DrawLog(r, "angle")]
    /\ i' = [i EXCEPT ![r] = 0]
    /\ pc' = [pc EXCEPT ![r] = "place"]
    /\ UNCHANGED <<seed_input, base_seed, internal_seed, ring_index, radius,
                   strongholds>>
    /\ UNCHANGED <<mainVars, queryVars>>

\* Lines 92-93: base angle draw; the inner loop starts at i = 0.
DrawBaseAngle(r) ==
    /\ pc[r] = "angle"
    /\ LET d == rng_double(CurrentSeed(r))
       IN  /\ internal_seed' = [internal_seed EXCEPT ![r] = d.seed]
           /\ base_angle' = [base_angle EXCEPT ![r] = d.value]
           /\ value' = [value EXCEPT ![r] = d.value]
           /\ draws' = [draws EXCEPT ![r] = DrawLog(r, "angle")]
    /\ i' = [i EXCEPT ![r] = 0]
    /\ pc' = [pc EXCEPT ![r] = "place"]
    /\ UNCHANGED <<seed_input, base_seed, ring_index, radius, strongholds>>
    /\ UNCHANGED <<mainVars, queryVars>>

\* Lines 96-112: one iteration of the inner loop; after the last one the
\* outer loop moves to the next ring.
PlaceStronghold(r) ==
    /\ pc[r] = "place"
    /\ LET count == RING_STRONGHOLDS[ring_index[r] + 1]
           d     == rng_double(CurrentSeed(r))
           angle == Angle(base_angle[r], i[r], Jitter(d.value))
       IN  /\ i[r] < count
           /\ internal_seed' = [internal_seed EXCEPT ![r] = d.seed]
           /\ value' = [value EXCEPT ![r] = d.value]
           /\ draws' = [draws EXCEPT ![r] = DrawLog(r, "jitter")]
           /\ strongholds' = [strongholds EXCEPT ![r] =
                  Append(@, Stronghold(ring_index[r], i[r], radius[r], angle))]
           /\ i' = [i EXCEPT ![r] = @ + 1]
           /\ IF i[r] + 1 = count
              THEN /\ pc' = [pc EXCEPT ![r] = "ring"]
                   /\ ring_index' = [ring_index EXCEPT ![r] = @ + 1]
              ELSE UNCHANGED <<pc, ring_index>>
    /\ UNCHANGED <<seed_input, base_seed, radius, base_angle>>
    /\ UNCHANGED <<mainVars, queryVars>>

\* Line 114: the zip is exhausted, return strongholds.
Return(r) ==
    /\ pc[r] = "ring"
    /\ ring_index[r] = NumRings
    /\ pc' = [pc EXCEPT ![r] = "done"]
    /\ UNCHANGED <<seed_input, base_seed, internal_seed, ring_index, i, radius,
                   base_angle, strongholds, value, draws>>
    /\ UNCHANGED <<mainVars, queryVars>>

GenStep(r) ==
    \/ Start(r)
    \/ DrawRadius(r)
    \/ DrawBaseAngle(r)
    \/ PlaceStronghold(r)
    \/ Return(r)

\* generate_strongholds as the one sequential function it is.  InnerLoop
\* gives the landmarks lo..hi-1 of a ring and the state left after them (a
\* longer range is run in two halves, the second from the state the first
\* leaves), OuterLoop the landmarks of the rings ring..7.
RECURSIVE InnerLoop(_, _, _, _, _, _)
InnerLoop(ring, lo, hi, rad, base, seed) ==
    IF lo = hi THEN [list |-> <<>>, seed |-> seed]
    ELSE IF hi = lo + 1
    THEN LET d == rng_double(seed)
         IN  [list |-> <<Stronghold(ring, lo, rad,
                                    Angle(base, lo, Jitter(d.value)))>>,
              seed |-> d.seed]
    ELSE LET mid   == (lo + hi) \div 2
             left  == InnerLoop(ring, lo, mid, rad, base, seed)
             right == InnerLoop(ring, mid, hi, rad, base, left.seed)
         IN  [list |-> left.list \o right.list, seed |-> right.seed]

RECURSIVE OuterLoop(_, _)
OuterLoop(ring, seed) ==
    IF ring = NumRings THEN <<>>
    ELSE LET d1    == rng_double(seed)
             d2    == rng_double(d1.seed)
             rad   == RingRadius(d1.value, RING_RADII[ring + 1][1],
                                 RING_RADII[ring + 1][2])
             inner == InnerLoop(ring, 0, RING_STRONGHOLDS[ring + 1], rad,
                                d2.value, d2.seed)
         IN  inner.list \o OuterLoop(ring + 1, inner.seed)

generate_strongholds(s) ==
    OuterLoop(0, InitialInternalSeed(java_like_seed_from_string(s)))

---------------------------------------------------------------------------
(* distance, find_nearby_strongholds *)

\* distance(): the value returned is math.sqrt of this sum.  Coordinates
\* here are small integers; sqrt is strictly increasing on their sums of
\* squares, so a distance is kept as its square and compared as such.
distance(x1, z1, x2, z2) ==
    LET dx == x2 - x1
        dz == z2 - z1
    IN  dx * dx + dz * dz

\* Mutant of Within: the boundary is left out.
WithinStrict(d, m) == m >= 0 /\ d < m * m

\* d <= max_distance for d the square of a distance: no distance is below
\* zero, and above zero squaring keeps the order.
Within(d, m) == m >= 0 /\ d <= m * m

\* Mutant of InsertByDistance: an entry goes before the entries of equal
\* distance.
RECURSIVE InsertBeforeEqual(_, _)
InsertBeforeEqual(sorted, e) ==
    IF sorted = <<>> THEN <<e>>
    ELSE IF e.distance <= Head(sorted).distance THEN <<e>> \o sorted
    ELSE <<Head(sorted)>> \o InsertBeforeEqual(Tail(sorted), e)

\* list.sort(key=...) is a stable insertion sort on lists this short: an
\* entry goes after every entry whose key is not greater.
RECURSIVE InsertByDistance(_, _)
InsertByDistance(sorted, e) ==
    IF sorted = <<>> THEN <<e>>
    ELSE IF e.distance < Head(sorted).distance THEN <<e>> \o sorted
    ELSE <<Head(sorted)>> \o InsertByDistance(Tail(sorted), e)

RECURSIVE SortByDistance(_)
SortByDistance(l) ==
    IF l = <<>> THEN <<>>
    ELSE InsertByDistance(SortByDistance(SubSeq(l, 1, Len(l) - 1)), l[Len(l)])

\* entry = dict(sh); entry["distance"] = d
Entry(sh, d) ==
    [ring |-> sh.ring, index |-> sh.index, x |-> sh.x, z |-> sh.z,
     distance |-> d]

\* Lines 123-128: one iteration of the loop over strongholds.
Visit ==
    /\ q_pc = "loop"
    /\ q_k < Len(q_strongholds)
    /\ LET sh == q_strongholds[q_k + 1]
           d  == distance(q_px, q_pz, sh.x, sh.z)
       IN  results' = IF Within(d, q_max) THEN Append(results, Entry(sh, d))
                      ELSE results
    /\ q_k' = q_k + 1
    /\ UNCHANGED <<q_pc, q_strongholds, q_px, q_pz, q_max>>
    /\ UNCHANGED <<genVars, mainVars>>

\* Lines 130-131: the loop is over; sort, return.
SortAndReturn ==
    /\ q_pc = "loop"
    /\ q_k = Len(q_strongholds)
    /\ results' = SortByDistance(results)
    /\ q_pc' = "done"
    /\ UNCHANGED <<q_strongholds, q_px, q_pz, q_max, q_k>>
    /\ UNCHANGED <<genVars, mainVars>>

---------------------------------------------------------------------------
(* main *)

\* A run of digits, single underscores allowed between digits.
DigitRun(b) ==
    /\ b # <<>>
    /\ IsDigit(b[1]) /\ IsDigit(b[Len(b)])
    /\ \A p \in 1..Len(b) : IsDigit(b[p]) \/ b[p] = "_"
    /\ \A p \in 1..(Len(b) - 1) : ~(b[p] = "_" /\ b[p + 1] = "_")

\* The first place of c in s, 0 when there is none.
IndexOf(s, c) ==
    IF \E p \in 1..Len(s) : s[p] = c
    THEN CHOOSE p \in 1..Len(s) : s[p] = c /\ \A q \in 1..(p - 1) : s[q] # c
    ELSE 0

DropSign(t) == IF t # <<>> /\ t[1] \in {"+", "-"} THEN Tail(t) ELSE t

IsMantissa(m) ==
    LET dot == IndexOf(m, ".")
        ip  == SubSeq(m, 1, dot - 1)
        fp  == SubSeq(m, dot + 1, Len(m))
    IN  IF dot = 0 THEN DigitRun(m)
        ELSE /\ ip = <<>> \/ DigitRun(ip)
             /\ fp = <<>> \/ DigitRun(fp)
             /\ ip # <<>> \/ fp # <<>>

\* Whether float(s) accepts s (lower case): blanks around, a sign, then
\* inf, infinity, nan, or digits with an optional point and exponent.
IsFloatLiteral(s) ==
    LET u == DropSign(Strip(s))
        e == IndexOf(u, "e")
    IN  \/ u \in { <<"i","n","f">>, <<"n","a","n">>,
                   <<"i","n","f","i","n","i","t","y">> }
        \/ IF e = 0 THEN IsMantissa(u)
           ELSE /\ IsMantissa(SubSeq(u, 1, e - 1))
                /\ DigitRun(DropSign(SubSeq(u, e + 1, Len(u))))

\* The lines a user may type at a numeric prompt.
InputLines ==
    << <<"1","0">>,
       <<"a","b","c">>,
       <<" ","-","3",".","5">>,
       <<>>,
       <<"1","e","3">>,
       <<"n","a","n">>,
       <<"1","e">> >>

LineSample == {InputLines[k] : k \in 1..(IF NumLines < Len(InputLines) THEN NumLines
                                         ELSE Len(InputLines))}

\* The lines a user may type at the seed prompt.
SeedLines ==
    { <<>>, <<" "," ">>, <<" ","1","2","3","4","5"," ">>, <<"s","t","e","v","e">> }

\* sys.exit(1) after print(msg).
Fail(msg) ==
    /\ out' = Append(out, msg)
    /\ exit_status' = 1
    /\ main_pc' = "exited"

\* Lines 151-157: banner, seed prompt, the seed is required.
PromptSeed ==
    /\ main_pc = "seed"
    /\ \E line \in SeedLines :
          /\ lines' = Append(lines, [prompt |-> "seed", text |-> line])
          /\ IF Strip(line) = <<>>
             THEN /\ Fail("Seed is required.")
                  /\ UNCHANGED main_seed_input
             ELSE /\ main_seed_input' = Strip(line)
                  /\ main_pc' = "x"
                  /\ UNCHANGED <<out, exit_status>>
    /\ UNCHANGED <<player_x, player_z, max_distance, genVars, queryVars>>

\* Line 160 with its handler, lines 162-164.
PromptX ==
    /\ main_pc = "x"
    /\ \E line \in LineSample :
          /\ lines' = Append(lines, [prompt |-> "x", text |-> line])
          /\ IF IsFloatLiteral(line)
             THEN /\ player_x' = Strip(line)
                  /\ main_pc' = "z"
                  /\ UNCHANGED <<out, exit_status>>
             ELSE /\ Fail("X and Z must be numbers.")
                  /\ UNCHANGED player_x
    /\ UNCHANGED <<main_seed_input, player_z, max_distance, genVars, queryVars>>

\* Line 161 with its handler, lines 162-164.
PromptZ ==
    /\ main_pc = "z"
    /\ \E line \in LineSample :
          /\ lines' = Append(lines, [prompt |-> "z", text |-> line])
          /\ IF IsFloatLiteral(line)
             THEN /\ player_z' = Strip(line)
                  /\ main_pc' = "radius"
                  /\ UNCHANGED <<out, exit_status>>
             ELSE /\ Fail("X and Z must be numbers.")
                  /\ UNCHANGED player_z
    /\ UNCHANGED <<main_seed_input, player_x, max_distance, genVars, queryVars>>

\* Mutant of PromptRadius: the message is printed and the run goes on.
PromptRadiusNoExit ==
    /\ main_pc = "radius"
    /\ \E line \in LineSample :
          /\ lines' = Append(lines, [prompt |-> "radius", text |-> line])
          /\ IF IsFloatLiteral(line)
             THEN /\ max_distance' = Strip(line)
                  /\ UNCHANGED out
             ELSE /\ out' = Append(out, "Search radius must be a number.")
                  /\ UNCHANGED max_distance
    /\ main_pc' = "generate"
    /\ UNCHANGED <<exit_status, main_seed_input, player_x, player_z, genVars,
                   queryVars>>

\* Lines 166-170.
PromptRadius ==
    /\ main_pc = "radius"
    /\ \E line \in LineSample :
          /\ lines' = Append(lines, [prompt |-> "radius", text |-> line])
          /\ IF IsFloatLiteral(line)
             THEN /\ max_distance' = Strip(line)
                  /\ main_pc' = "generate"
                  /\ UNCHANGED <<out, exit_status>>
             ELSE /\ Fail("Search radius must be a number.")
                  /\ UNCHANGED max_distance
    /\ UNCHANGED <<main_seed_input, player_x, player_z, genVars, queryVars>>

\* Line 172: the call generate_strongholds(seed_input); its steps are
\* those of run 1.
CallGenerate ==
    /\ main_pc = "generate"
    /\ seed_input' = [seed_input EXCEPT ![1] = main_seed_input]
    /\ pc' = [pc EXCEPT ![1] = "start"]
    /\ main_pc' = "generating"
    /\ UNCHANGED <<base_seed, internal_seed, ring_index, i, radius, base_angle,
                   strongholds, value, draws, out, lines, exit_status,
                   main_seed_input, player_x, player_z, max_distance, queryVars>>

\* Lines 173-174: the query and pretty_print_results, which prints either
\* the list or the line that nothing was found; main returns.  Which of
\* the two depends on cos and sin of the angles, so the output is kept as
\* the fact that the results were printed.
PrintResults ==
    /\ main_pc = "generating"
    /\ pc[1] = "done"
    /\ out' = Append(out, "results")
    /\ exit_status' = 0
    /\ main_pc' = "returned"
    /\ UNCHANGED <<lines, main_seed_input, player_x, player_z, max_distance,
                   genVars, queryVars>>

---------------------------------------------------------------------------
(* Sample inputs and initial states. *)

SeedInputs ==
    << <<"1","2","3","4","5">>,
       <<"s","t","e","v","e">>,
       <<"-","7">>,
       <<"9","2","2","3","3","7","2","0","3","6","8","5","4","7","7","5","8","0","8">>,
       <<>>,
       <<"-"," ","1">>,
       <<"-","9","2","2","3","3","7","2","0","3","6","8","5","4","7","7","5","8","0","9">>,
       <<" ","4","_","2"," ">>,
       <<"0">>,
       <<"a","l","e","x">>,
       <<"1","_","_","0">> >>

SeedSample(n) == {SeedInputs[k] : k \in 1..(IF n < Len(SeedInputs) THEN n ELSE Len(SeedInputs))}

NoSeed == [neg |-> FALSE, mag |-> <<>>]
NoRadius == [int |-> 0, num |-> 0]

GenIdle ==
    /\ base_seed = [r \in Runs |-> NoSeed]
    /\ internal_seed = [r \in Runs |-> <<0, 0, 0, 0, 0, 0>>]
    /\ ring_index = [r \in Runs |-> 0]
    /\ i = [r \in Runs |-> 0]
    /\ radius = [r \in Runs |-> NoRadius]
    /\ base_angle = [r \in Runs |-> 0]
    /\ strongholds = [r \in Runs |-> <<>>]
    /\ value = [r \in Runs |-> 0]
    /\ draws = [r \in Runs |-> <<>>]

MainIdle ==
    /\ main_pc = "idle"
    /\ out = <<>>
    /\ lines = <<>>
    /\ exit_status = -1
    /\ main_seed_input = <<>>
    /\ player_x = <<>>
    /\ player_z = <<>>
    /\ max_distance = <<>>

QueryIdle ==
    /\ q_pc = "idle"
    /\ q_strongholds = <<>>
    /\ q_px = 0
    /\ q_pz = 0
    /\ q_max = 0
    /\ q_k = 0
    /\ results = <<>>

\* One call generate_strongholds(seed_input).
Init ==
    /\ \E s \in SeedSample(NumSeeds) :
          seed_input = [r \in Runs |-> IF r = 1 THEN s ELSE <<>>]
    /\ pc = [r \in Runs |-> IF r = 1 THEN "start" ELSE "idle"]
    /\ GenIdle /\ MainIdle /\ QueryIdle

\* Two calls of generate_strongholds whose steps interleave.
InitConc ==
    /\ \E s \in SeedSample(1), t \in SeedSample(ConcSeeds) :
          seed_input = [r \in Runs |-> IF r = 1 THEN s ELSE t]
    /\ pc = [r \in Runs |-> "start"]
    /\ GenIdle /\ MainIdle /\ QueryIdle

\* The coordinates the sample landmarks and reference points lie on.
Points == { <<0, 0>>, <<3, 4>>, <<4, 3>>, <<-5, 0>>, <<6, 8>> }
Players == { <<0, 0>>, <<3, 4>> }
MaxDistances == {-1, 0, 5, 7}

\* Landmark lists of up to MaxLandmarks entries; an entry is tagged with its
\* place in the list, as generate_strongholds tags ring 0.
LandmarkLists ==
    UNION { { [k \in 1..n |-> [ring |-> 0, index |-> k - 1,
                              x |-> f[k][1], z |-> f[k][2]]]
              : f \in [1..n -> Points] }
            : n \in 0..MaxLandmarks }

\* One call find_nearby_strongholds(strongholds, player_x, player_z,
\* max_distance).
InitQuery ==
    /\ q_strongholds \in LandmarkLists
    /\ \E p \in Players : q_px = p[1] /\ q_pz = p[2]
    /\ q_max \in MaxDistances
    /\ q_k = 0
    /\ results = <<>>
    /\ q_pc = "loop"
    /\ seed_input = [r \in Runs |-> <<>>]
    /\ pc = [r \in Runs |-> "idle"]
    /\ GenIdle /\ MainIdle

\* One execution of main().
InitMain ==
    /\ main_pc = "seed"
    /\ out = <<>>
    /\ lines = <<>>
    /\ exit_status = -1
    /\ main_seed_input = <<>>
    /\ player_x = <<>>
    /\ player_z = <<>>
    /\ max_distance = <<>>
    /\ seed_input = [r \in Runs |-> <<>>]
    /\ pc = [r \in Runs |-> "idle"]
    /\ GenIdle /\ QueryIdle

Next == \E r \in Runs : GenStep(r)

NextQuery == Visit \/ SortAndReturn

NextMain ==
    \/ PromptSeed
    \/ PromptX
    \/ PromptZ
    \/ PromptRadius
    \/ CallGenerate
    \/ GenStep(1)
    \/ PrintResults

Spec == Init /\ [][Next]_vars

SpecConc == InitConc /\ [][Next]_vars

SpecQuery == InitQuery /\ [][NextQuery]_vars

SpecMain == InitMain /\ [][NextMain]_vars

---------------------------------------------------------------------------
(* Helpers of the properties. *)

Started(r) == pc[r] \notin {"idle", "start"}

RECURSIVE SumSeq(_)
SumSeq(q) == IF q = <<>> THEN 0 ELSE Head(q) + SumSeq(Tail(q))

\* The (ring, index) tag at place n of the enumeration ring 0..7, index
\* 0..count-1 within each ring.
RECURSIVE TagAt(_, _)
TagAt(n, ring) ==
    IF n <= RING_STRONGHOLDS[ring + 1] THEN <<ring, n - 1>>
    ELSE TagAt(n - RING_STRONGHOLDS[ring + 1], ring + 1)

\* What the n-th draw of a run is for: per ring the radius, the base angle,
\* then one jitter per landmark.
RECURSIVE DrawAt(_, _)
DrawAt(n, ring) ==
    IF n = 1 THEN [what |-> "radius", ring |-> ring]
    ELSE IF n = 2 THEN [what |-> "angle", ring |-> ring]
    ELSE IF n <= 2 + RING_STRONGHOLDS[ring + 1] THEN [what |-> "jitter", ring |-> ring]
    ELSE DrawAt(n - 2 - RING_STRONGHOLDS[ring + 1], ring + 1)

\* n applications of the LCG step (a * s + c) mod 2^48 to s: the first half
\* of them, then the rest from the state h they leave.
RECURSIVE Advance(_, _)
Advance(s, n) ==
    IF n = 0 THEN s
    ELSE IF n = 1 THEN MulAdd48(Multiplier, s, Increment)
    ELSE CHOOSE t \in {Advance(h, n - (n \div 2)) : h \in {Advance(s, n \div 2)}} :
             TRUE

\* -2^63 <= v <= 2^63 - 1 for a signed big integer.
InInt64(v) ==
    \/ Len(v.mag) <= 7
    \/ Len(v.mag) = 8 /\ v.mag[8] < 128
    \/ v.neg /\ v.mag = <<0, 0, 0, 0, 0, 0, 0, 128>>

\* Decimal digits of a magnitude, by repeated division by ten.
RECURSIVE DivMod10(_, _)
DivMod10(a, rem) ==
    IF a = <<>> THEN [q |-> <<>>, r |-> rem]
    ELSE LET cur  == rem * 256 + a[Len(a)]
             rest == DivMod10(SubSeq(a, 1, Len(a) - 1), cur % 10)
         IN  [q |-> Append(rest.q, cur \div 10), r |-> rest.r]

RECURSIVE Decimal(_)
Decimal(a) ==
    IF a = <<>> THEN <<>>
    ELSE LET dm == DivMod10(a, 0)
         IN  Append(Decimal(Normalize(dm.q)), Digits[dm.r + 1])

\* The digits an integer literal denotes: no blanks, sign, underscores or
\* leading zeros.
RECURSIVE DropZeros(_)
DropZeros(b) == IF b # <<>> /\ Head(b) = "0" THEN DropZeros(Tail(b)) ELSE b

LiteralDigits(s) == DropZeros(SelectSeq(IntBody(s), IsDigit))

Bit(x, n) == (x \div (2 ^ n)) % 2

\* 0x5DEECE66D mod 2^15, and the low 15 bits of a 6-byte state.
Low15(s) == s[1] + 256 * (s[2] % 128)
MultiplierLow15 == Multiplier[1] + 256 * (Multiplier[2] % 128)

IsState48(s) == Len(s) = 6 /\ \A p \in 1..6 : s[p] \in 0..255

---------------------------------------------------------------------------
(* Properties of generate_strongholds, under Spec. *)

\* C1: the (ring, index) tags of the list are the enumeration ring 0..7,
\* index 0..RING_STRONGHOLDS[ring]-1, in that order and each once; the
\* returned list has 3+6+10+15+21+28+36+9 = 128 entries.
C1_TagsEnumerated ==
    \A r \in Runs :
        /\ Len(strongholds[r]) <= SumSeq(RING_STRONGHOLDS)
        /\ \A n \in 1..Len(strongholds[r]) :
              <<strongholds[r][n].ring, strongholds[r][n].index>> = TagAt(n, 0)
        /\ pc[r] = "done" =>
              /\ Len(strongholds[r]) = SumSeq(RING_STRONGHOLDS)
              /\ Len(strongholds[r]) = 128

C1_Witness ==
    /\ pc[1] = "done"
    /\ strongholds[1][128].ring = 7 /\ strongholds[1][128].index = 8

\* C2: every landmark's radius lies within the bounds of the ring it is
\* tagged with, RING_RADII[ring][0] <= radius <= RING_RADII[ring][1].
C2_RadiusInRing ==
    \A r \in Runs : \A n \in 1..Len(strongholds[r]) :
        LET sh    == strongholds[r][n]
            r_min == RING_RADII[sh.ring + 1][1]
            r_max == RING_RADII[sh.ring + 1][2]
        IN  /\ r_min <= sh.radius.int
            /\ sh.radius.num \in 0..67108863
            /\ \/ sh.radius.int < r_max
               \/ sh.radius.int = r_max /\ sh.radius.num = 0

C2_Witness ==
    /\ pc[1] = "done"
    /\ \E n \in 1..Len(strongholds[1]) :
          /\ strongholds[1][n].ring = 7
          /\ strongholds[1][n].radius.int > 22912
          /\ strongholds[1][n].radius.num > 0

\* C4 as claimed: the normalised seed is a 64-bit signed integer for every
\* input string, parsed or hashed.
C4_AlwaysInt64 == \A r \in Runs : Started(r) => InInt64(base_seed[r])

\* C4 as amended: a hashed input gives a 64-bit signed integer; an input
\* int() accepts gives exactly the integer it denotes, whatever its size.
C4_HashedInt64ParsedVerbatim ==
    \A r \in Runs : Started(r) =>
        IF IsIntLiteral(seed_input[r])
        THEN /\ Decimal(base_seed[r].mag) = LiteralDigits(seed_input[r])
             /\ base_seed[r].neg =
                   (Strip(seed_input[r])[1] = "-" /\ base_seed[r].mag # <<>>)
             /\ Len(LiteralDigits(seed_input[r])) < 19 => InInt64(base_seed[r])
        ELSE InInt64(base_seed[r])

C4_Witness ==
    /\ pc[1] = "ring"
    /\ ~IsIntLiteral(seed_input[1])
    /\ base_seed[1].neg
    /\ Len(base_seed[1].mag) = 8

\* C7: the draws of a run are, ring after ring, one for the radius, one for
\* the base angle, one jitter per landmark; each draw starts from the state
\* the draw before returned, so after n draws the state is the initial
\* internal seed advanced n times; ring r takes 2 + RING_STRONGHOLDS[r]
\* draws, a full run 144.
C7_SequentialDraws ==
    \A r \in Runs : Started(r) =>
        LET n == Len(draws[r])
        IN  /\ n <= 144
            /\ \A k \in 1..n : draws[r][k] = DrawAt(k, 0)
            /\ internal_seed[r] = Advance(InitialInternalSeed(base_seed[r]), n)
            /\ Len(strongholds[r]) =
                  Cardinality({k \in 1..n : draws[r][k].what = "jitter"})
            /\ n > 0 =>
                  CASE draws[r][n].what = "radius" ->
                          radius[r] = RingRadius(Shr22(internal_seed[r]),
                                          RING_RADII[draws[r][n].ring + 1][1],
                                          RING_RADII[draws[r][n].ring + 1][2])
                    [] draws[r][n].what = "angle" ->
                          base_angle[r] = Shr22(internal_seed[r])
                    [] draws[r][n].what = "jitter" ->
                          LET sh == strongholds[r][Len(strongholds[r])]
                          IN  /\ sh.angle.jit = Jitter(Shr22(internal_seed[r]))
                              /\ sh.ring = draws[r][n].ring
            /\ pc[r] = "done" =>
                  /\ n = 144
                  /\ \A q \in 0..(NumRings - 1) :
                        Cardinality({k \in 1..n : draws[r][k].ring = q})
                            = 2 + RING_STRONGHOLDS[q + 1]

C7_Witness ==
    /\ pc[1] = "done"
    /\ Len(draws[1]) = 144
    /\ draws[1][144] = [what |-> "jitter", ring |-> 7]

\* C9: the generator state is always an integer in [0, 2^48); the initial
\* state is (seed XOR 0x5DEECE66D) mod 2^48, also for a negative seed and
\* one beyond 64 bits; the state rng_next gives is (a * s + c) mod 2^48;
\* the value rng_double returns is (state' >> 22) / 2^26, in [0, 1).
C9_State48 ==
    \A r \in Runs : Started(r) =>
        LET s == internal_seed[r]
            t == rng_next(s)
        IN  /\ IsState48(s)
            /\ IsState48(t)
            /\ Low15(t) = (MultiplierLow15 * Low15(s) + 11) % 32768
            /\ draws[r] = <<>> =>
                  LET m == Low(base_seed[r].mag, 6)
                      x == BigXor(s, Multiplier)
                  IN  IF base_seed[r].neg
                      THEN \* x = (seed mod 2^48): x + |seed| is 0 modulo 2^48
                           Low(MulAddSmall(
                                   [p \in 1..6 |-> 255 - x[p]], 1, 1), 6) = m
                      ELSE x = m
            /\ draws[r] # <<>> =>
                  /\ value[r] \in 0..67108863
                  /\ value[r] \div 4 = s[4] + 256 * s[5] + 65536 * s[6]
                  /\ value[r] % 4 = s[3] \div 64
            /\ (seed_input[r] = <<"1","2","3","4","5">> /\ Len(draws[r]) = 144)
                  => s = <<100, 69, 136, 178, 249, 67>>

C9_Witness ==
    /\ pc[1] = "place"
    /\ base_seed[1].neg
    /\ ~InInt64(base_seed[1])
    /\ value[1] > 33554432

\* C10: every landmark's jitter lies in [-0.2, 0.2) of the even spacing
\* 2*pi/count; the angles of landmarks i and i+1 of one ring differ by more
\* than 0.6 and less than 1.4 of the spacing.  One unit is the spacing
\* divided by 5 * 2^26, so 0.2 is 2^26, 0.6 is 3 * 2^26, 1.4 is 7 * 2^26.
C10_JitterBounded ==
    \A r \in Runs : \A n \in 1..Len(strongholds[r]) :
        LET sh == strongholds[r][n]
        IN  /\ sh.angle.slot = sh.index
            /\ -67108864 <= sh.angle.jit /\ sh.angle.jit < 67108864
            /\ (n > 1 /\ strongholds[r][n - 1].ring = sh.ring) =>
                  LET prev == strongholds[r][n - 1]
                      diff == (sh.angle.slot - prev.angle.slot) * 335544320
                              + sh.angle.jit - prev.angle.jit
                  IN  /\ prev.angle.base = sh.angle.base
                      /\ prev.radius = sh.radius
                      /\ 201326592 < diff /\ diff < 469762048

C10_Witness ==
    /\ pc[1] = "done"
    /\ \E n \in 2..Len(strongholds[1]) :
          /\ strongholds[1][n - 1].ring = strongholds[1][n].ring
          /\ strongholds[1][n - 1].angle.jit > 0
          /\ strongholds[1][n].angle.jit < 0

---------------------------------------------------------------------------
(* Interleaved runs, under SpecConc. *)

\* The first n landmarks of ring 0 of a run on s executed alone.
SoloFirstRing(s, n) ==
    LET d1  == rng_double(InitialInternalSeed(java_like_seed_from_string(s)))
        d2  == rng_double(d1.seed)
        rad == RingRadius(d1.value, RING_RADII[1][1], RING_RADII[1][2])
    IN  InnerLoop(0, 0, n, rad, d2.value, d2.seed).list

\* C3: whatever the interleaving, a run returns the list it returns when
\* executed alone (and while it places the landmarks of ring 0 its list is
\* already the one of the run alone), and two runs with the same seed
\* return the same list.
C3_RunsIndependent ==
    /\ \A r \in Runs :
          pc[r] = "done" => strongholds[r] = generate_strongholds(seed_input[r])
    /\ \A r \in Runs :
          Len(strongholds[r]) \in 1..RING_STRONGHOLDS[1] =>
              strongholds[r] = SoloFirstRing(seed_input[r], Len(strongholds[r]))
    /\ (pc[1] = "done" /\ pc[2] = "done" /\ seed_input[1] = seed_input[2])
          => strongholds[1] = strongholds[2]

C3_Witness ==
    /\ pc[1] = "done" /\ pc[2] = "done"
    /\ seed_input[1] # seed_input[2]
    /\ strongholds[1] # strongholds[2]

---------------------------------------------------------------------------
(* Properties of find_nearby_strongholds, under SpecQuery. *)

\* The Euclidean distance between two points is at most m: some whole
\* number of 0..m is not below it.
EuclidWithin(px, pz, x, z, m) ==
    \E e \in 0..m : e * e >= (x - px) * (x - px) + (z - pz) * (z - pz)

\* C5: the result holds one entry for each input landmark whose distance to
\* the reference point is <= max_distance, the boundary included, and none
\* for any other; a negative max_distance or an empty list gives an empty
\* result.
C5_FilterExact ==
    q_pc = "done" =>
        /\ \A n \in 1..Len(q_strongholds) :
              LET sh   == q_strongholds[n]
                  hits == {k \in 1..Len(results) : results[k].index = sh.index}
              IN  IF EuclidWithin(q_px, q_pz, sh.x, sh.z, q_max)
                  THEN /\ Cardinality(hits) = 1
                       /\ \A k \in hits :
                             /\ results[k].ring = sh.ring
                             /\ results[k].x = sh.x /\ results[k].z = sh.z
                             /\ results[k].distance =
                                   (sh.x - q_px) * (sh.x - q_px)
                                   + (sh.z - q_pz) * (sh.z - q_pz)
                  ELSE hits = {}
        /\ \A k \in 1..Len(results) :
              \E n \in 1..Len(q_strongholds) :
                  results[k].index = q_strongholds[n].index
        /\ (q_max < 0 \/ q_strongholds = <<>>) => results = <<>>

C5_Witness ==
    /\ q_pc = "done"
    /\ q_max = 5
    /\ Len(q_strongholds) = 3
    /\ Len(results) = 2
    /\ \E k \in 1..Len(results) : results[k].distance = 25

\* C6: the result is ordered by non-decreasing distance, and entries of
\* equal distance keep the order their landmarks have in the input.
C6_SortedStable ==
    q_pc = "done" =>
        \A k \in 1..Len(results) : \A l \in (k + 1)..Len(results) :
            /\ results[k].distance <= results[l].distance
            /\ results[k].distance = results[l].distance
                  => results[k].index < results[l].index

C6_Witness ==
    /\ q_pc = "done"
    /\ Len(results) = 3
    /\ results[2].distance = results[3].distance
    /\ <<results[2].x, results[2].z>> # <<results[3].x, results[3].z>>
    /\ results[1].index > results[2].index

---------------------------------------------------------------------------
(* Properties of main, under SpecMain. *)

PromptOrder == <<"seed", "x", "z", "radius">>

\* Whether main accepts the line read at a prompt.
Accepted(l) ==
    IF l.prompt = "seed" THEN Strip(l.text) # <<>> ELSE IsFloatLiteral(l.text)

Message(prompt) ==
    CASE prompt = "seed" -> "Seed is required."
      [] prompt \in {"x", "z"} -> "X and Z must be numbers."
      [] prompt = "radius" -> "Search radius must be a number."

\* C8: an empty seed or a non-numeric X, Z or radius ends the program with
\* its message and status 1, with no landmark generated and no result
\* printed; the prompts come in the order seed, X, Z, radius, each only
\* after the inputs before it were accepted; generation and result output
\* are reached only with all four accepted.
C8_InputValidation ==
    /\ Len(lines) <= 4
    /\ \A n \in 1..Len(lines) : lines[n].prompt = PromptOrder[n]
    /\ \A n \in 1..(Len(lines) - 1) : Accepted(lines[n])
    /\ exit_status = 1 <=> (lines # <<>> /\ ~Accepted(lines[Len(lines)]))
    /\ exit_status = 1 =>
          /\ main_pc = "exited"
          /\ out = <<Message(lines[Len(lines)].prompt)>>
          /\ pc[1] = "idle" /\ strongholds[1] = <<>> /\ draws[1] = <<>>
    /\ (pc[1] # "idle" \/ main_pc \in {"generate", "generating", "returned"}) =>
          /\ Len(lines) = 4
          /\ \A n \in 1..4 : Accepted(lines[n])
          /\ exit_status # 1
          /\ seed_input[1] = Strip(lines[1].text) \/ main_pc = "generate"
    /\ out # <<>> /\ out[Len(out)] = "results" =>
          main_pc = "returned" /\ pc[1] = "done" /\ exit_status = 0

C8_Witness ==
    /\ exit_status = 1
    /\ Len(lines) = 4
    /\ out = <<"Search radius must be a number.">>

=============================================================================
